---- MODULE Spec2Model ----
(***************************************************************************)
(* A model of the notebook                                                 *)
(*   molecular-property-prediction/chemoinformatics/                       *)
(*   0_introduction-to-rdkit.ipynb                                         *)
(* run in a fresh kernel: the sixteen executed code cells, the names they  *)
(* bind in the kernel's namespace, the objects those names refer to, and   *)
(* the outputs the cells record.  The library calls the cells make (gzip,  *)
(* json, pandas, RDKit) are modelled by what they compute on a small       *)
(* fragment of their input languages: SMILES over the organic atoms        *)
(* C, N, O, c, n, o with bonds - = #, branches and ring-closure digits;    *)
(* line-delimited JSON objects of string and decimal-number values.        *)
(* The outputs recorded in the notebook pin these operators down on the    *)
(* inputs the notebook uses.  The Morgan hash and the BCUT eigenvalues are *)
(* abstracted: the fingerprint uses a stand-in hash, so the positions of   *)
(* its bits (not its length or its element type) differ from RDKit's, and  *)
(* the BCUT2D result is an opaque vector of eight entries.                 *)
(***************************************************************************)
EXTENDS Integers, Sequences, FiniteSets, TLC

(***************************************************************************)
(* Generic helpers                                                         *)
(***************************************************************************)
Range(s) == {s[i] : i \in 1..Len(s)}

Min(a, b) == IF a <= b THEN a ELSE b

RECURSIVE SumOver(_, _)
\* Sum of f[x] for x in the finite set S (f a function on S).
SumOver(f, S) ==
    IF S = {} THEN 0
    ELSE LET x == CHOOSE y \in S : TRUE
         IN f[x] + SumOver(f, S \ {x})

(***************************************************************************)
(* Python values that are not objects on the heap                          *)
(***************************************************************************)
Unbound == [t |-> "unbound"]      \* the name is not in the namespace
None == [t |-> "None"]
Ref(k) == [t |-> "ref", id |-> k]
IsRef(v) == v.t = "ref"

(***************************************************************************)
(* Chem.MolFromSmiles: the SMILES parser                                   *)
(***************************************************************************)
AliphaticSyms == {"C", "N", "O"}
AromaticSyms == {"c", "n", "o"}
RingDigits == {"1", "2", "3"}

\* The element symbol Atom.GetSymbol() reports: aromatic atoms are written
\* in lower case in SMILES but are the same elements.
ElementOf(ch) ==
    CASE ch \in {"C", "c"} -> "C"
      [] ch \in {"N", "n"} -> "N"
      [] ch \in {"O", "o"} -> "O"

BondOrderOf(ch) ==
    CASE ch = "-" -> 1
      [] ch = "=" -> 2
      [] ch = "#" -> 3

\* Parser state before the first character.  pend is the bond symbol read
\* and not yet used (0: none); rings maps an open ring-closure digit to the
\* atom that opened it and the bond order written there.
ParseInit ==
    [ok |-> TRUE, atoms |-> << >>, bonds |-> << >>, prev |-> 0,
     stack |-> << >>, pend |-> 0, rings |-> << >>, last |-> ""]

HasBond(bonds, a, b) ==
    \E i \in 1..Len(bonds) :
        \/ bonds[i].a = a /\ bonds[i].b = b
        \/ bonds[i].a = b /\ bonds[i].b = a

OpenRing(st, d) == {i \in 1..Len(st.rings) : st.rings[i].digit = d}

\* A bond written without a symbol is aromatic (order 0 here) between two
\* aromatic atoms and single otherwise.
DefaultOrder(atoms, a, b) ==
    IF atoms[a].arom /\ atoms[b].arom THEN 0 ELSE 1

ParseAtom(st, ch) ==
    LET idx == Len(st.atoms) + 1
        atoms2 == Append(st.atoms, [symbol |-> ElementOf(ch),
                                    arom |-> ch \in AromaticSyms])
        order == IF st.pend # 0 THEN st.pend
                 ELSE DefaultOrder(atoms2, st.prev, idx)
    IN [st EXCEPT !.atoms = atoms2,
                  !.bonds = IF st.prev = 0 THEN st.bonds
                            ELSE Append(st.bonds,
                                        [a |-> st.prev, b |-> idx, order |-> order]),
                  !.prev = idx, !.pend = 0, !.last = ch]

ParseBondSym(st, ch) ==
    IF st.prev = 0 \/ st.pend # 0
    THEN [st EXCEPT !.ok = FALSE]
    ELSE [st EXCEPT !.pend = BondOrderOf(ch), !.last = ch]


\* Mutant of ParseRingDigit: the second occurrence of a digit opens another
\* ring instead of closing the open one.
ParseRingDigitNeverCloses(st, ch) ==
    IF st.prev = 0 \/ st.last \in {"(", ")"}
    THEN [st EXCEPT !.ok = FALSE]
    ELSE [st EXCEPT !.rings = Append(st.rings,
                        [digit |-> ch, atom |-> st.prev, order |-> st.pend]),
                    !.pend = 0, !.last = ch]

ParseRingDigit(st, ch) ==
    IF st.prev = 0 \/ st.last \in {"(", ")"}
    THEN [st EXCEPT !.ok = FALSE]
    ELSE IF OpenRing(st, ch) = {}
    THEN [st EXCEPT !.rings = Append(st.rings,
                        [digit |-> ch, atom |-> st.prev, order |-> st.pend]),
                    !.pend = 0, !.last = ch]
    ELSE LET k == CHOOSE i \in OpenRing(st, ch) : TRUE
             o == st.rings[k]
             order == IF st.pend # 0 THEN st.pend
                      ELSE IF o.order # 0 THEN o.order
                      ELSE DefaultOrder(st.atoms, o.atom, st.prev)
         IN IF \/ o.atom = st.prev
               \/ HasBond(st.bonds, o.atom, st.prev)
               \/ (st.pend # 0 /\ o.order # 0 /\ st.pend # o.order)
            THEN [st EXCEPT !.ok = FALSE]
            ELSE [st EXCEPT
                    !.bonds = Append(st.bonds,
                                [a |-> o.atom, b |-> st.prev, order |-> order]),
                    !.rings = SelectSeq(st.rings, LAMBDA r : r.digit # ch),
                    !.pend = 0, !.last = ch]

ParseOpen(st) ==
    IF st.prev = 0 \/ st.pend # 0 \/ st.last = "("
    THEN [st EXCEPT !.ok = FALSE]
    ELSE [st EXCEPT !.stack = Append(st.stack, st.prev), !.last = "("]

ParseClose(st) ==
    IF st.stack = << >> \/ st.pend # 0 \/ st.last = "("
    THEN [st EXCEPT !.ok = FALSE]
    ELSE [st EXCEPT !.prev = st.stack[Len(st.stack)],
                    !.stack = SubSeq(st.stack, 1, Len(st.stack) - 1),
                    !.last = ")"]

ParseChar(st, ch) ==
    CASE ch \in AliphaticSyms \cup AromaticSyms -> ParseAtom(st, ch)
      [] ch \in {"-", "=", "#"} -> ParseBondSym(st, ch)
      [] ch \in RingDigits -> ParseRingDigit(st, ch)
      [] ch = "(" -> ParseOpen(st)
      [] ch = ")" -> ParseClose(st)
      [] OTHER -> [st EXCEPT !.ok = FALSE]

RECURSIVE ParseFrom(_, _, _)
ParseFrom(st, smi, i) ==
    IF ~st.ok \/ i > Len(smi) THEN st
    ELSE ParseFrom(ParseChar(st, smi[i]), smi, i + 1)

\* The molecular graph a SMILES string writes, or ok = FALSE on a syntax
\* error (an unclosed branch or ring, a dangling bond, an unknown symbol).
ParseSmiles(smi) ==
    LET st == ParseFrom(ParseInit, smi, 1)
    IN [st EXCEPT !.ok = st.ok /\ st.stack = << >> /\ st.pend = 0
                          /\ st.rings = << >>]

(***************************************************************************)
(* Graph queries on a bond list                                            *)
(***************************************************************************)
Nbrs(bonds, a) ==
    {bonds[i].b : i \in {j \in 1..Len(bonds) : bonds[j].a = a}}
    \cup {bonds[i].a : i \in {j \in 1..Len(bonds) : bonds[j].b = a}}

RECURSIVE Reach(_, _)
\* The atoms connected to an atom of S by a path of the bonds.
Reach(bonds, S) ==
    LET T == S \cup UNION {Nbrs(bonds, a) : a \in S}
    IN IF T = S THEN S ELSE Reach(bonds, T)

WithoutBond(bonds, i) ==
    [j \in 1..(Len(bonds) - 1) |-> IF j < i THEN bonds[j] ELSE bonds[j + 1]]

\* A bond is a ring bond when its ends stay connected without it.
BondInRing(bonds, i) ==
    bonds[i].b \in Reach(WithoutBond(bonds, i), {bonds[i].a})

BondsAt(bonds, a) == {i \in 1..Len(bonds) : bonds[i].a = a \/ bonds[i].b = a}

AtomInRing(bonds, a) == \E i \in BondsAt(bonds, a) : BondInRing(bonds, i)

RECURSIVE NumComponents(_, _)
\* The number of connected components among the atoms of S.
NumComponents(bonds, S) ==
    IF S = {} THEN 0
    ELSE LET a == CHOOSE x \in S : TRUE
         IN 1 + NumComponents(bonds, S \ Reach(bonds, {a}))

(***************************************************************************)
(* Sanitization: kekulization, valence check, implicit hydrogens           *)
(***************************************************************************)
DefaultValence(sym) ==
    CASE sym = "C" -> 4
      [] sym = "N" -> 3
      [] sym = "O" -> 2
      [] sym = "H" -> 1

\* The aromatic bonds of the parsed graph that lie in a ring; an aromatic
\* bond outside a ring (the link of a biphenyl) is a single bond.
AromBonds(g) ==
    {i \in 1..Len(g.bonds) : g.bonds[i].order = 0 /\ BondInRing(g.bonds, i)}

\* An aromatic atom that must receive one double bond of the Kekule form:
\* carbon without an exocyclic double bond, two-connected nitrogen.
NeedsDouble(g, a) ==
    /\ g.atoms[a].arom
    /\ \/ /\ g.atoms[a].symbol = "C"
          /\ \A i \in BondsAt(g.bonds, a) : g.bonds[i].order < 2
       \/ /\ g.atoms[a].symbol = "N"
          /\ Cardinality(BondsAt(g.bonds, a)) = 2

IsKekule(g, D) ==
    \A a \in 1..Len(g.atoms) :
        Cardinality(D \cap BondsAt(g.bonds, a)) = IF NeedsDouble(g, a) THEN 1 ELSE 0

KekuleForms(g) == {D \in SUBSET AromBonds(g) : IsKekule(g, D)}

\* The bond list with every aromatic bond given its Kekule order.
Kekulized(g, D) ==
    [i \in 1..Len(g.bonds) |->
        [a |-> g.bonds[i].a, b |-> g.bonds[i].b,
         order |-> IF g.bonds[i].order # 0 THEN g.bonds[i].order
                   ELSE IF i \in D THEN 2 ELSE 1,
         arom |-> i \in AromBonds(g)]]

ExplicitValence(bonds, a) ==
    SumOver([i \in BondsAt(bonds, a) |-> bonds[i].order], BondsAt(bonds, a))

\* Atoms with their implicit hydrogen counts filled in.
WithImplicitHs(g, bonds) ==
    [a \in 1..Len(g.atoms) |->
        [symbol |-> g.atoms[a].symbol, arom |-> g.atoms[a].arom,
         numHs |-> DefaultValence(g.atoms[a].symbol) - ExplicitValence(bonds, a)]]

\* The sanitized molecule of a parsed graph, or None when an aromatic atom
\* is not in a ring, no Kekule form exists, or an atom exceeds its valence.
Sanitize(g) ==
    IF \E a \in 1..Len(g.atoms) : g.atoms[a].arom /\ ~AtomInRing(g.bonds, a)
    THEN None
    ELSE IF KekuleForms(g) = {} THEN None
    ELSE LET bonds == Kekulized(g, CHOOSE D \in KekuleForms(g) : TRUE)
             atoms == WithImplicitHs(g, bonds)
         IN IF \E a \in 1..Len(atoms) : atoms[a].numHs < 0 THEN None
            ELSE [kind |-> "Mol", atoms |-> atoms, bonds |-> bonds]

\* Chem.MolFromSmiles: a Mol, or None (no exception) for a string that does
\* not parse or does not sanitize.
MolFromSmiles(smi) ==
    LET g == ParseSmiles(smi)
    IN IF g.ok THEN Sanitize(g) ELSE None

(***************************************************************************)
(* Queries and conversions on a Mol                                        *)
(***************************************************************************)
\* mol.GetAtoms() followed by a.GetSymbol() for each atom, in index order.
GetSymbols(m) == [i \in 1..Len(m.atoms) |-> m.atoms[i].symbol]

NumAtoms(m) == Len(m.atoms)

RECURSIVE HsFor(_, _, _)
\* The hydrogen atoms and bonds AddHs appends for atoms a..Len(m.atoms),
\* given that the next new atom gets index next.
HsFor(m, a, next) ==
    IF a > Len(m.atoms) THEN [atoms |-> << >>, bonds |-> << >>]
    ELSE LET k == m.atoms[a].numHs
             rest == HsFor(m, a + 1, next + k)
         IN [atoms |-> [i \in 1..k |-> [symbol |-> "H", arom |-> FALSE, numHs |-> 0]]
                       \o rest.atoms,
             bonds |-> [i \in 1..k |-> [a |-> a, b |-> next + i - 1,
                                        order |-> 1, arom |-> FALSE]]
                       \o rest.bonds]


\* Mutant of AddHs: the hydrogens of the first atom are left out.
AddHsSkipFirst(m) ==
    LET hs == HsFor(m, 2, Len(m.atoms) + 1)
    IN [kind |-> "Mol",
        atoms |-> [i \in 1..Len(m.atoms) |-> [m.atoms[i] EXCEPT !.numHs = 0]]
                  \o hs.atoms,
        bonds |-> m.bonds \o hs.bonds]

\* Mutant of AddHs: the atoms keep their implicit hydrogen counts.
AddHsKeepsCounts(m) ==
    LET hs == HsFor(m, 1, Len(m.atoms) + 1)
    IN [kind |-> "Mol",
        atoms |-> m.atoms \o hs.atoms,
        bonds |-> m.bonds \o hs.bonds]

\* Chem.AddHs: a new molecule in which every implicit hydrogen is an atom
\* of its own, appended after the existing atoms in the order of the atoms
\* that carry them.
AddHs(m) ==
    LET hs == HsFor(m, 1, Len(m.atoms) + 1)
    IN [kind |-> "Mol",
        atoms |-> [i \in 1..Len(m.atoms) |-> [m.atoms[i] EXCEPT !.numHs = 0]]
                  \o hs.atoms,
        bonds |-> m.bonds \o hs.bonds]


\* Mutant of NumRings: the molecule's components are not counted.
NumRingsNoComponents(m) == Len(m.bonds) - Len(m.atoms)

\* mol.GetRingInfo().NumRings(): the size of the smallest set of smallest
\* rings, bonds - atoms + components.
NumRings(m) ==
    Len(m.bonds) - Len(m.atoms) + NumComponents(m.bonds, 1..Len(m.atoms))

\* Mutant of RotatableEnd: a terminal atom counts as an end.
RotatableEndTerminal(m, a) ==
    \A i \in BondsAt(m.bonds, a) : m.bonds[i].order # 3

\* An end atom of a rotatable bond: not terminal, not triple-bonded.
RotatableEnd(m, a) ==
    /\ Cardinality(BondsAt(m.bonds, a)) # 1
    /\ \A i \in BondsAt(m.bonds, a) : m.bonds[i].order # 3

\* AllChem.CalcNumRotatableBonds: single bonds outside rings between two
\* such atoms (the library's default, non-strict pattern; its strict
\* pattern excludes more bonds, none of them in the molecules of the run).
CalcNumRotatableBonds(m) ==
    Cardinality({i \in 1..Len(m.bonds) :
        /\ m.bonds[i].order = 1
        /\ ~m.bonds[i].arom
        /\ ~BondInRing(m.bonds, i)
        /\ RotatableEnd(m, m.bonds[i].a)
        /\ RotatableEnd(m, m.bonds[i].b)})

(***************************************************************************)
(* Fingerprints and vector descriptors                                     *)
(***************************************************************************)
AtomicNum(sym) ==
    CASE sym = "H" -> 1
      [] sym = "C" -> 6
      [] sym = "N" -> 7
      [] sym = "O" -> 8

\* The stand-in for the Morgan atom invariant hash (element, degree,
\* hydrogen count, ring membership), kept below 2^16.
AtomInvariant(m, a) ==
    (AtomicNum(m.atoms[a].symbol) * 7919
     + Cardinality(BondsAt(m.bonds, a)) * 4729
     + m.atoms[a].numHs * 977
     + (IF AtomInRing(m.bonds, a) THEN 1 ELSE 0)) % 65536

RECURSIVE MorganLayer(_, _)
\* The identifiers of the atom environments of radius r, one per atom.
MorganLayer(m, r) ==
    IF r = 0 THEN [a \in 1..Len(m.atoms) |-> AtomInvariant(m, a)]
    ELSE LET prev == MorganLayer(m, r - 1)
         IN [a \in 1..Len(m.atoms) |->
                (r * 8191 + prev[a] * 31
                 + SumOver([i \in BondsAt(m.bonds, a) |->
                              (m.bonds[i].order * 131
                               + prev[IF m.bonds[i].a = a THEN m.bonds[i].b
                                      ELSE m.bonds[i].a]) * 257],
                           BondsAt(m.bonds, a))) % 65536]


\* Mutant of GetMorganFingerprintAsBitVect: the length argument is ignored
\* and the library's default length is used.
GetMorganFingerprintDefaultLength(m, radius, nBits) ==
    [kind |-> "ExplicitBitVect", size |-> 2048,
     bits |-> {MorganLayer(m, r)[a] % 2048 :
                  r \in 0..radius, a \in 1..Len(m.atoms)}]

\* AllChem.GetMorganFingerprintAsBitVect(mol, radius, nBits): every
\* environment identifier up to the radius is folded into nBits positions.
GetMorganFingerprintAsBitVect(m, radius, nBits) ==
    [kind |-> "ExplicitBitVect", size |-> nBits,
     bits |-> {MorganLayer(m, r)[a] % nBits :
                  r \in 0..radius, a \in 1..Len(m.atoms)}]

\* np.asarray(bv): one integer per position of the bit vector.
AsArray(bv) ==
    [kind |-> "ndarray",
     values |-> [i \in 1..bv.size |-> IF (i - 1) \in bv.bits THEN 1 ELSE 0]]

BCUTSize == 8

\* AllChem.BCUT2D(mol): a C++ vector of eight doubles; its entries
\* (eigenvalues of Burden matrices) are not modelled.
BCUT2D(m) == [kind |-> "vectd", size |-> BCUTSize]

(***************************************************************************)
(* The input file: line-delimited JSON, one object per line                *)
(***************************************************************************)
Str(chars) == [ty |-> "str", chars |-> chars]
Num(neg, int, frac) == [ty |-> "num", neg |-> neg, int |-> int, frac |-> frac]
Pair(k, v) == [key |-> k, val |-> v]
Newline == [key |-> "\n"]

\* The text of one line: its key/value pairs in file order, then "\n".
LineOf(index, smiles, inchi, u) ==
    << Pair("inchi_0", Str(<<inchi>>)), Pair("index", index),
       Pair("smiles_0", Str(smiles)), Pair("u", u), Newline >>

RECURSIVE Digits(_)
\* The decimal digits of a natural number.
Digits(n) == IF n < 10 THEN <<n>> ELSE Append(Digits(n \div 10), n % 10)

\* The five records the notebook displays as rows 0..4 of the table.
Recorded ==
    << LineOf(Num(FALSE, <<1>>, << >>), <<"C">>, "InChI=1S/CH4/h1H4",
              Num(TRUE, <<4, 0>>, <<4, 7, 6, 0, 6, 2>>)),
       LineOf(Num(FALSE, <<2>>, << >>), <<"N">>, "InChI=1S/H3N/h1H3",
              Num(TRUE, <<5, 6>>, <<5, 2, 3, 0, 2, 6>>)),
       LineOf(Num(FALSE, <<3>>, << >>), <<"O">>, "InChI=1S/H2O/h1H2",
              Num(TRUE, <<7, 6>>, <<4, 0, 1, 8, 6, 7>>)),
       LineOf(Num(FALSE, <<4>>, << >>), <<"C", "#", "C">>,
              "InChI=1S/C2H2/c1-2/h1-2H",
              Num(TRUE, <<7, 7>>, <<3, 0, 5, 5, 2, 7>>)),
       LineOf(Num(FALSE, <<5>>, << >>), <<"C", "#", "N">>,
              "InChI=1S/CHN/c1-2/h1H",
              Num(TRUE, <<9, 3>>, <<4, 0, 9, 3, 7>>)) >>

\* Molecules for the lines after the recorded ones (the notebook shows no
\* later row; any well-formed record may stand there).
Later ==
    << [smiles |-> <<"C", "C", "C", "O">>,
        inchi |-> "InChI=1S/C3H8O/c1-2-3-4/h4H,2-3H2,1H3"],
       [smiles |-> <<"C", "c", "1", "c", "c", "c", "c", "c", "1">>,
        inchi |-> "InChI=1S/C7H8/c1-7-5-3-2-4-6-7/h2-6H,1H3"],
       [smiles |-> <<"C", "O">>, inchi |-> "InChI=1S/CH4O/c1-2/h2H,1H3"],
       [smiles |-> <<"O", "C">>, inchi |-> "InChI=1S/CH4O/c1-2/h2H,1H3"] >>

\* A SMILES string that does not parse: its ring is never closed.
Malformed == <<"C", "1", "C", "C">>

\* Line i of a well-formed file.
GoodLine(i) ==
    IF i <= Len(Recorded) THEN Recorded[i]
    ELSE LET e == Later[((i - Len(Recorded) - 1) % Len(Later)) + 1]
         IN LineOf(Num(FALSE, Digits(i), << >>), e.smiles, e.inchi,
                   Num(TRUE, Digits(i), <<5>>))

\* Line i with a malformed SMILES string in place of its own.
BadSmilesLine(i) ==
    [k \in 1..Len(GoodLine(i)) |->
        IF GoodLine(i)[k].key = "smiles_0" THEN Pair("smiles_0", Str(Malformed))
        ELSE GoodLine(i)[k]]

\* A file of n lines; line bad (when in 1..n) carries the malformed SMILES;
\* trunc: the compressed stream ends early, after the n complete lines.
MkFile(n, bad, trunc) ==
    [exists |-> TRUE, trunc |-> trunc,
     lines |-> [i \in 1..n |-> IF i = bad THEN BadSmilesLine(i) ELSE GoodLine(i)]]

NoFile == [exists |-> FALSE]

(***************************************************************************)
(* json.loads and str.strip                                                *)
(***************************************************************************)
\* str.strip(): the text without its leading and trailing newlines.
Strip(text) == SelectSeq(text, LAMBDA p : p.key # "\n")

RECURSIVE DigitsValue(_)
DigitsValue(ds) ==
    IF ds = << >> THEN 0
    ELSE DigitsValue(SubSeq(ds, 1, Len(ds) - 1)) * 10 + ds[Len(ds)]

RECURSIVE Pow10(_)
Pow10(k) == IF k = 0 THEN 1 ELSE 10 * Pow10(k - 1)

FracDigits == 6

\* The value of a JSON scalar: a string, an integer, or a float held in
\* units of 10^-FracDigits.
JsonValue(v) ==
    IF v.ty = "str" THEN [ty |-> "str", s |-> v.chars]
    ELSE LET mag == DigitsValue(v.int) * Pow10(FracDigits)
                    + DigitsValue(v.frac) * Pow10(FracDigits - Len(v.frac))
             int == DigitsValue(v.int)
         IN IF v.frac = << >>
            THEN [ty |-> "int", v |-> IF v.neg THEN -int ELSE int]
            ELSE [ty |-> "float", micro |-> IF v.neg THEN -mag ELSE mag]

Keys(text) == [k \in 1..Len(Strip(text)) |-> Strip(text)[k].key]

\* json.loads(text) for the text of one object: the mapping from its keys
\* to their values.  (The caller raises on an empty text.)
JsonLoads(text) ==
    [k \in Range(Keys(text)) |->
        JsonValue((CHOOSE p \in Range(Strip(text)) : p.key = k).val)]

(***************************************************************************)
(* pandas: read_json(lines=True), head, column projection, map             *)
(***************************************************************************)
\* Mutant of ReadJson: the table starts after the line that was already
\* read through another handle.
ReadJsonAfterFirst(lines) ==
    [kind |-> "DataFrame",
     columns |-> IF lines = << >> THEN << >> ELSE Keys(lines[1]),
     index |-> [i \in 1..(Len(lines) - 1) |-> i - 1],
     rows |-> [i \in 1..(Len(lines) - 1) |-> JsonLoads(lines[i + 1])]]

\* pd.read_json(path, lines=True): one row per line in file order, labelled
\* 0, 1, ...; the columns are the keys in the order of the first line.
ReadJson(lines) ==
    [kind |-> "DataFrame",
     columns |-> IF lines = << >> THEN << >> ELSE Keys(lines[1]),
     index |-> [i \in 1..Len(lines) |-> i - 1],
     rows |-> [i \in 1..Len(lines) |-> JsonLoads(lines[i])]]


\* Mutant of DfHead: the last k rows instead of the first.
DfTail(df, k) ==
    [df EXCEPT !.index = SubSeq(df.index, Len(df.index) - Min(k, Len(df.index)) + 1,
                                Len(df.index)),
               !.rows = SubSeq(df.rows, Len(df.rows) - Min(k, Len(df.rows)) + 1,
                               Len(df.rows))]

\* DataFrame.head(k): a new table of the first k rows.
DfHead(df, k) ==
    [df EXCEPT !.index = SubSeq(df.index, 1, Min(k, Len(df.index))),
               !.rows = SubSeq(df.rows, 1, Min(k, Len(df.rows)))]

HasColumns(df, cols) == Range(cols) \subseteq Range(df.columns)


\* Mutant of Project: the columns come out in the table's order, not in the
\* order asked for.
ProjectTableOrder(df, cols) ==
    [df EXCEPT !.columns = SelectSeq(df.columns, LAMBDA c : c \in Range(cols)),
               !.rows = [i \in 1..Len(df.rows) |->
                            [c \in Range(cols) |-> df.rows[i][c]]]]

\* df[cols]: a new table of the named columns, in the order named.
Project(df, cols) ==
    [df EXCEPT !.columns = cols,
               !.rows = [i \in 1..Len(df.rows) |->
                            [c \in Range(cols) |-> df.rows[i][c]]]]

\* The literals of the notebook: head(1000), head() shows five rows,
\* radius 4 and 16 bits, 16 code cells.
HeadRows == 1000
ShownRows == 5
MorganRadius == 4
MorganBits == 16
NumCells == 16

(***************************************************************************)
(* The library calls of the run, evaluated once per argument                *)
(***************************************************************************)
\* The string literals of cells 6 and 11.
PropanolSmiles == <<"C", "C", "C", "O">>
TolueneSmiles == <<"C", "c", "1", "c", "c", "c", "c", "c", "1">>

\* Every SMILES string the run hands to Chem.MolFromSmiles: the two
\* literals and the smiles_0 entries of the file.
SmilesSeen ==
    {PropanolSmiles, TolueneSmiles, Malformed}
    \cup {Later[i].smiles : i \in 1..Len(Later)}
    \cup {JsonLoads(Strip(Recorded[i]))["smiles_0"].s : i \in 1..Len(Recorded)}

\* Chem.MolFromSmiles on each of them.
ParsedSmiles == [smi \in SmilesSeen |-> MolFromSmiles(smi)]

\* The molecules `mol` can name when cell 15 runs: 1-propanol as parsed
\* and with explicit hydrogens.
MolsSeen ==
    {ParsedSmiles[PropanolSmiles], AddHs(ParsedSmiles[PropanolSmiles])}

\* AllChem.GetMorganFingerprintAsBitVect(mol, 4, 16) on each of them.
MorganOf ==
    [m \in MolsSeen |->
        GetMorganFingerprintAsBitVect(m, MorganRadius, MorganBits)]

\* Mutant of SetMolColumn: the new series is one row out of step with the
\* table.
SetMolColumnShifted(df) ==
    [df EXCEPT !.columns = IF "mol" \in Range(df.columns) THEN df.columns
                           ELSE Append(df.columns, "mol"),
               !.rows = [i \in 1..Len(df.rows) |->
                            [c \in Range(df.columns) \cup {"mol"} |->
                                IF c = "mol"
                                THEN ParsedSmiles[
                                       df.rows[(i % Len(df.rows)) + 1]["smiles_0"].s]
                                ELSE df.rows[i][c]]]]

\* df[col].map(f) computed row by row; df[new] = that series, in place.
\* SetMolColumn is data['mol'] = data['smiles_0'].map(Chem.MolFromSmiles).
SetMolColumn(df) ==
    [df EXCEPT !.columns = IF "mol" \in Range(df.columns) THEN df.columns
                           ELSE Append(df.columns, "mol"),
               !.rows = [i \in 1..Len(df.rows) |->
                            [c \in Range(df.columns) \cup {"mol"} |->
                                IF c = "mol"
                                THEN ParsedSmiles[df.rows[i]["smiles_0"].s]
                                ELSE df.rows[i][c]]]]


(***************************************************************************)
(* Bounds of the model                                                     *)
(***************************************************************************)
MaxShort == 6     \* short files have 0..MaxShort lines
MaxOver == 1      \* long files have HeadRows-1 .. HeadRows+MaxOver lines
MaxReruns == 1    \* cell 9 is executed again at most MaxReruns times

(***************************************************************************)
(* The kernel: cells, namespace, heap                                      *)
(***************************************************************************)
VARIABLES
    file,             \* the file at data_path (an input of the run)
    heap,             \* the objects created so far; an object's id is its index
    ns,               \* the kernel's namespace: name -> Unbound, None, Ref, ...
    status,           \* cell -> "queued", "running", "done", "error", "aborted"
    pos,              \* statements (or loop iterations) the running cell has finished
    out,              \* cell -> what the cell printed, displayed or raised
    ec,               \* the kernel's execution counter
    execution_count   \* cell -> the counter value it ran with (0: not run)

vars == <<file, heap, ns, status, pos, out, ec, execution_count>>

Cells == 1..NumCells

Modules == {"plt", "Chem", "AllChem", "pd", "np", "gzip", "json"}
DataNames == {"data_path", "fp", "record", "data", "mol", "i", "a",
              "toluene", "r", "bv"}
Names == Modules \cup DataNames

ShownColumns == <<"smiles_0", "inchi_0", "u">>

FileLens == (0..MaxShort) \cup ((HeadRows - 1)..(HeadRows + MaxOver))

\* The files a run may find: none; or a file of n lines, well formed or
\* with a malformed SMILES on its first or last line, whole or truncated.
Files ==
    {NoFile} \cup
    UNION {{MkFile(n, bad, trunc) : bad \in {0, 1, n}, trunc \in BOOLEAN} :
              n \in FileLens}

NoOut == [stdout |-> << >>, result |-> None, err |-> ""]

Init ==
    /\ file \in Files
    /\ heap = << >>
    /\ ns = [n \in Names |-> Unbound]
    /\ status = [c \in Cells |-> "queued"]
    /\ pos = 0
    /\ out = [c \in Cells |-> NoOut]
    /\ ec = 0
    /\ execution_count = [c \in Cells |-> 0]

Idle == \A c \in Cells : status[c] # "running"

At(c, k) == status[c] = "running" /\ pos = k

\* The value of a name that is bound to an object.
Obj(name) == heap[ns[name].id]

\* The exception a use of the name raises when it has no object: NameError
\* for a name never bound; for None, what the use of None raises.
ErrorFor(name, onNone) == IF ns[name] = Unbound THEN "NameError" ELSE onNone

\* The cell goes on to its next statement.
Step == /\ pos' = pos + 1
        /\ UNCHANGED <<file, status, ec, execution_count>>

\* The cell's last statement has finished.
Done(c) == /\ status' = [status EXCEPT ![c] = "done"]
           /\ pos' = 0
           /\ UNCHANGED <<file, ec, execution_count>>

\* An unhandled exception ends the cell where it is.
Raise(c, exc) ==
    /\ status' = [status EXCEPT ![c] = "error"]
    /\ out' = [out EXCEPT ![c].err = exc]
    /\ pos' = 0
    /\ UNCHANGED <<file, heap, ns, ec, execution_count>>


\* Mutant of StartCell: any queued cell may start at any time.
StartCellAnyOrder ==
    \E c \in Cells :
        /\ status[c] = "queued"
        /\ status' = [status EXCEPT ![c] = "running"]
        /\ ec' = ec + 1
        /\ execution_count' = [execution_count EXCEPT ![c] = ec + 1]
        /\ pos' = 0
        /\ UNCHANGED <<file, heap, ns, out>>

\* Mutant of StartCell: the last cell of the notebook is never taken.
StartCellButLast ==
    \E c \in Cells :
        /\ Idle
        /\ c < NumCells
        /\ status[c] = "queued"
        /\ \A d \in 1..(c - 1) : status[d] \in {"done", "error"}
        /\ status' = [status EXCEPT ![c] = "running"]
        /\ ec' = ec + 1
        /\ execution_count' = [execution_count EXCEPT ![c] = ec + 1]
        /\ pos' = 0
        /\ UNCHANGED <<file, heap, ns, out>>

\* The kernel takes the next cell of the notebook: it is idle, and every
\* cell above has been run.
StartCell ==
    \E c \in Cells :
        /\ Idle
        /\ status[c] = "queued"
        /\ \A d \in 1..(c - 1) : status[d] \in {"done", "error"}
        /\ status' = [status EXCEPT ![c] = "running"]
        /\ ec' = ec + 1
        /\ execution_count' = [execution_count EXCEPT ![c] = ec + 1]
        /\ pos' = 0
        /\ UNCHANGED <<file, heap, ns, out>>

\* After an error the rest of a "run all" is dropped.
AbortQueue ==
    /\ Idle
    /\ \E c \in Cells : status[c] = "error"
    /\ \E c \in Cells : status[c] = "queued"
    /\ status' = [c \in Cells |-> IF status[c] = "queued" THEN "aborted"
                                   ELSE status[c]]
    /\ UNCHANGED <<file, heap, ns, pos, out, ec, execution_count>>

(***************************************************************************)
(* The cells                                                               *)
(***************************************************************************)
\* In [1]: the imports.
Cell1_Import ==
    /\ At(1, 0)
    /\ ns' = [n \in Names |-> IF n \in Modules THEN [t |-> "module", name |-> n]
                               ELSE ns[n]]
    /\ Done(1)
    /\ UNCHANGED <<heap, out>>

\* In [2]: data_path = '../datasets/qm9.json.gz'
Cell2_Assign ==
    /\ At(2, 0)
    /\ heap' = Append(heap, [kind |-> "str", text |-> <<"../datasets/qm9.json.gz">>])
    /\ ns' = [ns EXCEPT !["data_path"] = Ref(Len(heap) + 1)]
    /\ Step
    /\ UNCHANGED out

\* In [2]: with gzip.open(data_path, 'rt') as fp: record = fp.readline().strip()
Cell2_With ==
    /\ At(2, 1)
    /\ IF ~file.exists
       THEN Raise(2, "FileNotFoundError")
       ELSE IF file.lines = << >> /\ file.trunc
       THEN \* the stream ends inside the first line; the with block closes fp
            /\ heap' = Append(heap, [kind |-> "GzipFile", closed |-> TRUE])
            /\ ns' = [ns EXCEPT !["fp"] = Ref(Len(heap) + 1)]
            /\ status' = [status EXCEPT ![2] = "error"]
            /\ out' = [out EXCEPT ![2].err = "EOFError"]
            /\ pos' = 0
            /\ UNCHANGED <<file, ec, execution_count>>
       ELSE /\ heap' = heap \o
                    << [kind |-> "GzipFile", closed |-> TRUE],
                       [kind |-> "str",
                        text |-> IF file.lines = << >> THEN << >>
                                 ELSE Strip(file.lines[1])] >>
            /\ ns' = [ns EXCEPT !["fp"] = Ref(Len(heap) + 1),
                                !["record"] = Ref(Len(heap) + 2)]
            /\ Step
            /\ UNCHANGED out

\* In [2]: print(record)
Cell2_Print ==
    /\ At(2, 2)
    /\ out' = [out EXCEPT ![2].stdout = Append(@, Obj("record").text)]
    /\ Done(2)
    /\ UNCHANGED <<heap, ns>>

\* In [3]: json.loads(record)
Cell3_Loads ==
    /\ At(3, 0)
    /\ IF ~IsRef(ns["record"]) THEN Raise(3, ErrorFor("record", "TypeError"))
       ELSE IF Obj("record").text = << >> THEN Raise(3, "JSONDecodeError")
       ELSE /\ out' = [out EXCEPT ![3].result =
                          [kind |-> "dict", map |-> JsonLoads(Obj("record").text)]]
            /\ Done(3)
            /\ UNCHANGED <<heap, ns>>


\* Mutant of Cell4_ReadJson: a truncated file is read as far as it goes.
Cell4_ReadJsonLenient ==
    /\ At(4, 0)
    /\ IF ~IsRef(ns["data_path"]) THEN Raise(4, ErrorFor("data_path", "ValueError"))
       ELSE IF ~file.exists THEN Raise(4, "FileNotFoundError")
       ELSE /\ heap' = Append(heap, DfHead(ReadJson(file.lines), HeadRows))
            /\ ns' = [ns EXCEPT !["data"] = Ref(Len(heap) + 1)]
            /\ Done(4)
            /\ UNCHANGED out

\* In [4]: data = pd.read_json(data_path, lines=True).head(1000)
Cell4_ReadJson ==
    /\ At(4, 0)
    /\ IF ~IsRef(ns["data_path"]) THEN Raise(4, ErrorFor("data_path", "ValueError"))
       ELSE IF ~file.exists THEN Raise(4, "FileNotFoundError")
       ELSE IF file.trunc THEN Raise(4, "EOFError")
       ELSE /\ heap' = Append(heap, DfHead(ReadJson(file.lines), HeadRows))
            /\ ns' = [ns EXCEPT !["data"] = Ref(Len(heap) + 1)]
            /\ Done(4)
            /\ UNCHANGED out

\* In [5]: data[['smiles_0', 'inchi_0', 'u']].head(5)
Cell5_Show ==
    /\ At(5, 0)
    /\ IF ~IsRef(ns["data"]) THEN Raise(5, ErrorFor("data", "TypeError"))
       ELSE IF ~HasColumns(Obj("data"), ShownColumns) THEN Raise(5, "KeyError")
       ELSE /\ out' = [out EXCEPT ![5].result =
                          DfHead(Project(Obj("data"), ShownColumns), ShownRows)]
            /\ Done(5)
            /\ UNCHANGED <<heap, ns>>

\* name = Chem.MolFromSmiles(smi): the name is bound to a new Mol, or to None.
AssignMolFromSmiles(c, name, smi) ==
    /\ At(c, 0)
    /\ LET m == ParsedSmiles[smi]
       IN IF m = None
          THEN /\ ns' = [ns EXCEPT ![name] = None]
               /\ heap' = heap
          ELSE /\ heap' = Append(heap, m)
               /\ ns' = [ns EXCEPT ![name] = Ref(Len(heap) + 1)]
    /\ Step
    /\ UNCHANGED out

\* A cell's last line is a bare name: its value is displayed.
ShowName(c, name) ==
    /\ At(c, 1)
    /\ out' = [out EXCEPT ![c].result = ns[name]]
    /\ Done(c)
    /\ UNCHANGED <<heap, ns>>

\* In [6]: mol = Chem.MolFromSmiles('CCCO')
Cell6_Assign == AssignMolFromSmiles(6, "mol", PropanolSmiles)

\* In [6]: mol
Cell6_Show == ShowName(6, "mol")

\* In [7]: data['mol'] = data['smiles_0'].map(Chem.MolFromSmiles)
Cell7_Map ==
    /\ At(7, 0)
    /\ IF ~IsRef(ns["data"]) THEN Raise(7, ErrorFor("data", "TypeError"))
       ELSE IF ~HasColumns(Obj("data"), <<"smiles_0">>) THEN Raise(7, "KeyError")
       ELSE /\ heap' = [heap EXCEPT ![ns["data"].id] = SetMolColumn(@)]
            /\ Done(7)
            /\ UNCHANGED <<ns, out>>

\* for i, a in enumerate(mol.GetAtoms()): print(f'Atom {i} is an {a.GetSymbol()}')
\* One step is one iteration; the step after the last atom ends the cell.
ForAtoms(c) ==
    /\ status[c] = "running"
    /\ IF ~IsRef(ns["mol"]) THEN Raise(c, ErrorFor("mol", "AttributeError"))
       ELSE IF pos < NumAtoms(Obj("mol"))
       THEN /\ ns' = [ns EXCEPT !["i"] = [t |-> "int", v |-> pos],
                                !["a"] = [t |-> "atom", mol |-> ns["mol"].id,
                                          idx |-> pos]]
            /\ out' = [out EXCEPT ![c].stdout =
                          Append(@, [i |-> pos,
                                     symbol |-> GetSymbols(Obj("mol"))[pos + 1]])]
            /\ Step
            /\ UNCHANGED heap
       ELSE /\ Done(c)
            /\ UNCHANGED <<heap, ns, out>>

\* In [8]: the atoms of mol as parsed.
Cell8_For == ForAtoms(8)


\* Mutant of Cell9_AddHs: the hydrogens are added to the molecule in place.
Cell9_AddHsInPlace ==
    /\ At(9, 0)
    /\ IF ~IsRef(ns["mol"]) THEN Raise(9, ErrorFor("mol", "ArgumentError"))
       ELSE /\ heap' = [heap EXCEPT ![ns["mol"].id] = AddHs(@)]
            /\ ns' = ns
            /\ Step
            /\ UNCHANGED out

\* Mutant of Cell9_AddHs: the new molecule is not assigned to mol.
Cell9_AddHsDiscarded ==
    /\ At(9, 0)
    /\ IF ~IsRef(ns["mol"]) THEN Raise(9, ErrorFor("mol", "ArgumentError"))
       ELSE /\ heap' = Append(heap, AddHs(Obj("mol")))
            /\ ns' = ns
            /\ Step
            /\ UNCHANGED out

\* In [9]: mol = Chem.AddHs(mol)
Cell9_AddHs ==
    /\ At(9, 0)
    /\ IF ~IsRef(ns["mol"]) THEN Raise(9, ErrorFor("mol", "ArgumentError"))
       ELSE /\ heap' = Append(heap, AddHs(Obj("mol")))
            /\ ns' = [ns EXCEPT !["mol"] = Ref(Len(heap) + 1)]
            /\ Step
            /\ UNCHANGED out

\* In [9]: mol
Cell9_Show == ShowName(9, "mol")

\* In [10]: the atoms of mol with its hydrogens.
Cell10_For == ForAtoms(10)

\* In [11]: toluene = Chem.MolFromSmiles('Cc1ccccc1')
Cell11_Assign == AssignMolFromSmiles(11, "toluene", TolueneSmiles)

\* In [11]: toluene
Cell11_Show == ShowName(11, "toluene")

\* In [12]: r = toluene.GetRingInfo()
Cell12_GetRingInfo ==
    /\ At(12, 0)
    /\ IF ~IsRef(ns["toluene"]) THEN Raise(12, ErrorFor("toluene", "AttributeError"))
       ELSE /\ heap' = Append(heap, [kind |-> "RingInfo", mol |-> ns["toluene"].id])
            /\ ns' = [ns EXCEPT !["r"] = Ref(Len(heap) + 1)]
            /\ Step
            /\ UNCHANGED out

\* In [12]: print(f'Toluene has {r.NumRings()} ring')
Cell12_Print ==
    /\ At(12, 1)
    /\ out' = [out EXCEPT ![12].stdout =
                  Append(@, [text |-> "Toluene has {} ring",
                             n |-> NumRings(heap[Obj("r").mol])])]
    /\ Done(12)
    /\ UNCHANGED <<heap, ns>>

\* In [13]: print(f'Toluene has {AllChem.CalcNumRotatableBonds(toluene)} rotatable bonds')
Cell13_Print ==
    /\ At(13, 0)
    /\ IF ~IsRef(ns["toluene"]) THEN Raise(13, ErrorFor("toluene", "ArgumentError"))
       ELSE /\ out' = [out EXCEPT ![13].stdout =
                          Append(@, [text |-> "Toluene has {} rotatable bonds",
                                     n |-> CalcNumRotatableBonds(Obj("toluene"))])]
            /\ Done(13)
            /\ UNCHANGED <<heap, ns>>


\* Mutant of Cell14_BCUT2D: the partial charges the descriptor needs are
\* stored on the molecule it is given.
Cell14_BCUT2DStoresCharges ==
    /\ At(14, 0)
    /\ IF ~IsRef(ns["mol"]) THEN Raise(14, ErrorFor("mol", "ArgumentError"))
       ELSE /\ heap' = Append([heap EXCEPT ![ns["mol"].id] =
                                  [kind |-> "Mol", atoms |-> @.atoms,
                                   bonds |-> @.bonds,
                                   props |-> "_GasteigerCharge"]],
                              BCUT2D(Obj("mol")))
            /\ ns' = [ns EXCEPT !["r"] = Ref(Len(heap) + 1)]
            /\ Step
            /\ UNCHANGED out

\* In [14]: r = AllChem.BCUT2D(mol)
Cell14_BCUT2D ==
    /\ At(14, 0)
    /\ IF ~IsRef(ns["mol"]) THEN Raise(14, ErrorFor("mol", "ArgumentError"))
       ELSE /\ heap' = Append(heap, BCUT2D(Obj("mol")))
            /\ ns' = [ns EXCEPT !["r"] = Ref(Len(heap) + 1)]
            /\ Step
            /\ UNCHANGED out

\* In [14]: r
Cell14_Show == ShowName(14, "r")

\* In [15]: bv = AllChem.GetMorganFingerprintAsBitVect(mol, 4, 16)
Cell15_Morgan ==
    /\ At(15, 0)
    /\ IF ~IsRef(ns["mol"]) THEN Raise(15, ErrorFor("mol", "ArgumentError"))
       ELSE /\ heap' = Append(heap, MorganOf[Obj("mol")])
            /\ ns' = [ns EXCEPT !["bv"] = Ref(Len(heap) + 1)]
            /\ Step
            /\ UNCHANGED out

\* In [15]: bv
Cell15_Show == ShowName(15, "bv")

\* In [16]: np.asarray(bv)
Cell16_AsArray ==
    /\ At(16, 0)
    /\ IF ~IsRef(ns["bv"]) THEN Raise(16, ErrorFor("bv", "TypeError"))
       ELSE /\ out' = [out EXCEPT ![16].result = AsArray(Obj("bv"))]
            /\ Done(16)
            /\ UNCHANGED <<heap, ns>>

Next ==
    \/ StartCell
    \/ AbortQueue
    \/ Cell1_Import
    \/ Cell2_Assign
    \/ Cell2_With
    \/ Cell2_Print
    \/ Cell3_Loads
    \/ Cell4_ReadJson
    \/ Cell5_Show
    \/ Cell6_Assign
    \/ Cell6_Show
    \/ Cell7_Map
    \/ Cell8_For
    \/ Cell9_AddHs
    \/ Cell9_Show
    \/ Cell10_For
    \/ Cell11_Assign
    \/ Cell11_Show
    \/ Cell12_GetRingInfo
    \/ Cell12_Print
    \/ Cell13_Print
    \/ Cell14_BCUT2D
    \/ Cell14_Show
    \/ Cell15_Morgan
    \/ Cell15_Show
    \/ Cell16_AsArray

Spec == Init /\ [][Next]_vars

\* The kernel keeps executing: a statement that can run does run, and a
\* queued cell is taken when the kernel is idle.
FairSpec == Spec /\ WF_vars(Next)

\* After a complete run, cell 9 (mol = Chem.AddHs(mol); mol) is executed
\* once more: it gets the next execution count and its output is cleared.
RerunCell9 ==
    /\ Idle
    /\ status[NumCells] = "done"
    /\ ec < NumCells + MaxReruns
    /\ status' = [status EXCEPT ![9] = "running"]
    /\ ec' = ec + 1
    /\ execution_count' = [execution_count EXCEPT ![9] = ec + 1]
    /\ out' = [out EXCEPT ![9] = NoOut]
    /\ pos' = 0
    /\ UNCHANGED <<file, heap, ns>>

RerunNext == Next \/ RerunCell9

RerunSpec == Init /\ [][RerunNext]_vars

(***************************************************************************)
(* Properties                                                              *)
(***************************************************************************)
Finished(c) == status[c] \in {"done", "error"}

\* The text of a key's value on a line of the file.
FieldOf(line, key) == (CHOOSE p \in Range(Strip(line)) : p.key = key).val

\* The cells that call a Molecule method, descriptor or fingerprint, and the
\* variable each applies it to.
MolCells == {8, 9, 10, 12, 13, 14, 15}
MolArg(c) == IF c \in {12, 13} THEN "toluene" ELSE "mol"

\* The cell is about to make its call on the molecule (the loops of cells 8
\* and 10 call GetAtoms()/GetSymbol() at every step).
AtCall(c) == status[c] = "running" /\ (c \in {8, 10} \/ pos = 0)

\* C1: in a top-to-bottom run every call to GetAtoms, AddHs, GetRingInfo,
\* CalcNumRotatableBonds, BCUT2D and GetMorganFingerprintAsBitVect is made
\* on a variable that an earlier cell bound to a successfully parsed
\* molecule (or to AddHs of one): never on an unbound name or on None, so
\* none of these cells ends in an error.
C1_ParsedBeforeUse ==
    \A c \in MolCells :
        /\ AtCall(c) =>
              /\ IsRef(ns[MolArg(c)])
              /\ Obj(MolArg(c)).kind = "Mol"
              /\ status[IF MolArg(c) = "mol" THEN 6 ELSE 11] = "done"
        /\ status[c] # "error"

C1_Witness ==
    /\ status[15] = "done"
    /\ status[13] = "done"
    /\ Obj("bv").kind = "ExplicitBitVect"
    /\ Len(out[10].stdout) = NumAtoms(Obj("mol"))

\* C2: execution is strictly sequential and top to bottom: at most one cell
\* is in progress; a cell that has begun has every cell above it finished
\* and carries the execution count of its position; between cells no
\* statement is half done, and a cell that has not begun has no effect.
C2_Sequential ==
    /\ Cardinality({c \in Cells : status[c] = "running"}) <= 1
    /\ \A c \in Cells :
          status[c] \in {"running", "done", "error"} =>
              /\ \A d \in 1..(c - 1) : Finished(d)
              /\ execution_count[c] = c
    /\ \A c \in Cells :
          status[c] \in {"queued", "aborted"} =>
              /\ out[c] = NoOut
              /\ execution_count[c] = 0
              /\ \A d \in (c + 1)..NumCells : status[d] \in {"queued", "aborted"}
    /\ Idle => pos = 0

C2_Witness ==
    /\ status[16] = "running"
    /\ \A d \in 1..15 : status[d] = "done"
    /\ ec = 16

\* The rows of the table whose SMILES string did not parse.
FailedRows(df) ==
    {i \in 1..Len(df.rows) : MolFromSmiles(df.rows[i]["smiles_0"].s) = None}

\* C3 as stated: every failure of a library call, that of parsing a
\* malformed SMILES string included, ends the current cell in an error, and
\* no cell completes with a substitute value in place of the failed result.
C3_AllFailuresRaise ==
    (IsRef(ns["data"]) /\ FailedRows(Obj("data")) # {}) => status[7] # "done"

\* C3 amended: a missing or truncated file ends the cell that reads it in an
\* unhandled error: the statements after the failing one do not run (nothing
\* is printed or displayed, the names they would bind stay unbound) and the
\* error is final (no retry).  A malformed SMILES string raises nothing:
\* MolFromSmiles returns None, and cell 7 completes with None in that row.
C3_FailuresEndCell ==
    /\ \A c \in Cells :
          status[c] = "error" => out[c].err # "" /\ out[c].result = None
    /\ \A c \in Cells : status[c] = "done" => out[c].err = ""
    /\ (~file.exists /\ Finished(2)) =>
          /\ status[2] = "error"
          /\ ns["fp"] = Unbound /\ ns["record"] = Unbound
          /\ out[2].stdout = << >>
    /\ (file.exists /\ file.trunc /\ file.lines = << >> /\ Finished(2)) =>
          /\ status[2] = "error"
          /\ ns["record"] = Unbound
          /\ out[2].stdout = << >>
    /\ ((~file.exists \/ file.trunc) /\ Finished(4)) =>
          /\ status[4] = "error"
          /\ ns["data"] = Unbound
    /\ ((~file.exists \/ file.trunc) /\ Finished(7)) => status[7] = "error"
    /\ status[7] = "done" =>
          \A i \in 1..Len(Obj("data").rows) :
              Obj("data").rows[i]["smiles_0"].s = Malformed
                  => Obj("data").rows[i]["mol"] = None

C3_Witness ==
    /\ file.exists /\ file.trunc /\ Len(file.lines) = HeadRows
    /\ status[2] = "done"
    /\ status[4] = "error" /\ out[4].err = "EOFError"
    /\ status[5] = "error" /\ out[5].err = "NameError"

\* C4: the Table data is built once, by cell 4, from a prefix of the file:
\* for a file of n records it has exactly min(n, 1000) rows, row i is the
\* i-th record of the file (labelled i - 1), and no later cell adds or
\* removes rows.
C4_TablePrefix ==
    /\ IsRef(ns["data"]) <=> status[4] = "done"
    /\ IsRef(ns["data"]) =>
          LET d == Obj("data")
          IN /\ d.kind = "DataFrame"
             /\ Len(d.rows) = Min(Len(file.lines), 1000)
             /\ Len(d.index) = Len(d.rows)
             /\ \A i \in 1..Len(d.rows) :
                   /\ d.index[i] = i - 1
                   /\ d.rows[i]["index"].v = i
                   /\ d.rows[i]["smiles_0"].s = FieldOf(file.lines[i], "smiles_0").chars
                   /\ d.rows[i]["inchi_0"].s = FieldOf(file.lines[i], "inchi_0").chars

C4_Witness ==
    /\ file.exists
    /\ Len(file.lines) = 1001
    /\ status[16] = "done"
    /\ IsRef(ns["data"])
    /\ Len(Obj("data").rows) = 1000
    /\ Obj("data").rows[1000]["index"].v = 1000

C6_TolueneOneRing ==
    /\ IsRef(ns["r"]) /\ Obj("r").kind = "RingInfo" =>
          /\ Obj("r").mol = ns["toluene"].id
          /\ NumRings(heap[Obj("r").mol]) = 1
    /\ status[12] = "done" =>
          out[12].stdout = << [text |-> "Toluene has {} ring", n |-> 1] >>

C6_Witness ==
    /\ status[12] = "done"
    /\ Len(out[12].stdout) = 1
    /\ NumAtoms(Obj("toluene")) = 7

\* C7: the molecule parsed from 'CCCO' has exactly the 4 atoms C, C, C, O at
\* indices 0..3; after mol = Chem.AddHs(mol) it has exactly 12 atoms, the
\* first four unchanged and in the same order, indices 4..11 all H.
C7_AddHsAppends ==
    /\ status[8] = "done" =>
          out[8].stdout = << [i |-> 0, symbol |-> "C"], [i |-> 1, symbol |-> "C"],
                             [i |-> 2, symbol |-> "C"], [i |-> 3, symbol |-> "O"] >>
    /\ status[10] = "done" =>
          /\ Len(out[10].stdout) = 12
          /\ SubSeq(out[10].stdout, 1, 4) = out[8].stdout
          /\ \A k \in 5..12 : out[10].stdout[k] = [i |-> k - 1, symbol |-> "H"]
          /\ NumAtoms(Obj("mol")) = 12

C7_Witness ==
    /\ status[10] = "done"
    /\ Len(out[8].stdout) = 4
    /\ out[10].stdout[12].symbol = "H"

\* The names that some later cell binds again: mol (cell 9), r (cell 14)
\* and the loop variables i and a (cell 10).
ReboundNames == {"mol", "r", "i", "a"}

\* The object is left as it is by the step.
SameObject(k) == heap'[k] = heap[k]

\* The step changes a table at most by giving it the column 'mol': the same
\* rows in the same order, every column it had unchanged.
OnlyMolColumnAdded(k) ==
    /\ heap'[k].kind = "DataFrame"
    /\ heap'[k].index = heap[k].index
    /\ Len(heap'[k].rows) = Len(heap[k].rows)
    /\ Range(heap'[k].columns) \ {"mol"} = Range(heap[k].columns) \ {"mol"}
    /\ \A i \in 1..Len(heap[k].rows) :
          \A c \in Range(heap[k].columns) \ {"mol"} :
              heap'[k].rows[i][c] = heap[k].rows[i][c]

\* C8 as stated: a name bound by one cell is never rebound by a later cell,
\* and an object held by one cell is never modified by another: the first
\* statement of a cell (when everything bound was bound by the cells above)
\* changes no binding and no object.
C8_NoSharedMutableState ==
    [][(~Idle /\ pos = 0) =>
          /\ \A n \in Names : ns[n] # Unbound => ns'[n] = ns[n]
          /\ \A k \in 1..Len(heap) : SameObject(k)]_vars

\* C8 amended: the cells share the kernel's namespace.  Later cells rebind
\* mol (cell 9), r (cell 14) and the loop variables i and a (cell 10), and
\* cell 7 changes the Table in place by adding the column 'mol'.  Every
\* other name, once bound, is never bound again; no object other than the
\* Table is ever modified (AddHs returns a new molecule and leaves the one
\* it was given as it was); the Table's rows, row labels and existing
\* columns are never modified; objects are never removed.
C8_SharedNamespace ==
    [][/\ \A n \in Names \ ReboundNames : ns[n] # Unbound => ns'[n] = ns[n]
       /\ Len(heap') >= Len(heap)
       /\ \A k \in 1..Len(heap) :
             IF heap[k].kind = "DataFrame" THEN OnlyMolColumnAdded(k)
             ELSE SameObject(k)]_vars

C8_Witness ==
    /\ status[14] = "done"
    /\ IsRef(out[6].result) /\ IsRef(out[9].result)
    /\ out[6].result # out[9].result
    /\ ns["mol"] = out[9].result
    /\ NumAtoms(heap[out[6].result.id]) = 4
    /\ Obj("r").kind = "vectd"
    /\ IsRef(ns["data"]) /\ "mol" \in Range(Obj("data").columns)

\* The cells that compute a descriptor or a fingerprint.
DescriptorCells == {12, 13, 14, 15}

\* C9: computing a descriptor has no side effect on its input: the steps of
\* the cells that call GetRingInfo, CalcNumRotatableBonds, BCUT2D and
\* GetMorganFingerprintAsBitVect leave every existing object (both
\* Molecules, the Table) unchanged and leave mol, toluene and data bound to
\* the same objects.
C9_DescriptorsPure ==
    [][(\E c \in DescriptorCells : status[c] = "running") =>
          /\ \A k \in 1..Len(heap) : SameObject(k)
          /\ Len(heap') >= Len(heap)
          /\ ns'["mol"] = ns["mol"]
          /\ ns'["toluene"] = ns["toluene"]
          /\ ns'["data"] = ns["data"]]_vars

C9_Witness ==
    /\ \A c \in DescriptorCells : status[c] = "done"
    /\ NumAtoms(Obj("mol")) = 12
    /\ NumAtoms(Obj("toluene")) = 7
    /\ NumRings(Obj("toluene")) = 1
    /\ IsRef(ns["data"]) /\ Len(Obj("data").rows) = HeadRows

\* The values the notebook displays for u in rows 0..4, in units of 10^-6.
ShownU == <<-40476062, -56523026, -76401867, -77305527, -93409370>>

\* C10: data[['smiles_0', 'inchi_0', 'u']].head(5) returns exactly the three
\* requested columns in the requested order and the first min(5, rows) rows
\* of the Table, in their order, with their labels and values; computing it
\* leaves data with the rows and columns it had.
C10_ProjectionHead ==
    /\ [](status[5] = "done" =>
            LET shown == out[5].result
                d == Obj("data")
            IN /\ shown.columns = <<"smiles_0", "inchi_0", "u">>
               /\ Len(shown.rows) = Min(5, Len(d.rows))
               /\ shown.index = [i \in 1..Len(shown.rows) |-> i - 1]
               /\ \A i \in 1..Len(shown.rows) :
                     /\ DOMAIN shown.rows[i] = {"smiles_0", "inchi_0", "u"}
                     /\ \A c \in DOMAIN shown.rows[i] :
                           shown.rows[i][c] = d.rows[i][c]
                     /\ shown.rows[i]["smiles_0"].s
                            = FieldOf(file.lines[i], "smiles_0").chars
                     /\ shown.rows[i]["inchi_0"].s
                            = FieldOf(file.lines[i], "inchi_0").chars
                     /\ shown.rows[i]["u"].micro = ShownU[i])
    /\ [][status[5] = "running" => heap' = heap /\ ns' = ns]_vars

C10_Witness ==
    /\ status[5] = "done"
    /\ Len(out[5].result.rows) = 5
    /\ Len(Obj("data").rows) = HeadRows
    /\ Len(Obj("data").columns) > 3

\* The input the notebook assumes: the file exists, is complete, holds at
\* least one record, and every SMILES string in it parses.
WellFormedInput ==
    /\ file.exists
    /\ ~file.trunc
    /\ file.lines # << >>
    /\ \A i \in 1..Len(file.lines) :
          FieldOf(file.lines[i], "smiles_0").chars # Malformed

AllDone == \A c \in Cells : status[c] = "done"

\* C11: with well-formed input a top-to-bottom run terminates: every cell
\* finishes without error and execution reaches and completes the last
\* cell; on the way each atom loop makes no more steps than the molecule
\* has atoms, the file read takes one line and the table holds at most
\* 1000 rows.
C11_Terminates ==
    /\ WellFormedInput => <>AllDone
    /\ [](WellFormedInput =>
            /\ \A c \in Cells : status[c] # "error" /\ status[c] # "aborted"
            /\ \A c \in {8, 10} :
                  status[c] = "running" => pos <= NumAtoms(Obj("mol"))
            /\ IsRef(ns["record"]) => Obj("record").text = Strip(file.lines[1])
            /\ IsRef(ns["data"]) => Len(Obj("data").rows) <= 1000)

C11_Witness ==
    /\ AllDone
    /\ file.exists /\ Len(file.lines) = 1001
    /\ Len(out[10].stdout) = 12
    /\ ec = 16

Letters(smi) ==
    Cardinality({j \in 1..Len(smi) : smi[j] \in AliphaticSyms \cup AromaticSyms})

\* C14: data['mol'] = data['smiles_0'].map(Chem.MolFromSmiles) adds exactly
\* one column to the table: the step binds no name and touches no other
\* object; the table keeps its rows, their number, order and labels; every
\* column it had keeps its values; and in row i the new 'mol' entry is the
\* parse of row i's own smiles_0 (None exactly for the string that does not
\* parse, otherwise a molecule with one atom per letter of that string).
C14_OneColumnAdded ==
    [][(status[7] = "running" /\ status'[7] = "done") =>
          LET id == ns["data"].id
              old == heap[id]
              new == heap'[id]
          IN /\ ns' = ns
             /\ Len(heap') = Len(heap)
             /\ \A k \in 1..Len(heap) : k # id => heap'[k] = heap[k]
             /\ "mol" \notin Range(old.columns)
             /\ new.columns = Append(old.columns, "mol")
             /\ new.index = old.index
             /\ Len(new.rows) = Len(old.rows)
             /\ \A i \in 1..Len(old.rows) :
                   LET smi == old.rows[i]["smiles_0"].s
                       m == new.rows[i]["mol"]
                   IN /\ DOMAIN new.rows[i] = DOMAIN old.rows[i] \cup {"mol"}
                      /\ \A c \in DOMAIN old.rows[i] :
                            new.rows[i][c] = old.rows[i][c]
                      /\ m = MolFromSmiles(smi)
                      /\ m = None <=> smi = Malformed
                      /\ m # None => NumAtoms(m) = Letters(smi)
       ]_vars

C14_Witness ==
    /\ status[7] = "done"
    /\ IsRef(ns["data"])
    /\ Len(Obj("data").rows) = HeadRows
    /\ Obj("data").columns[Len(Obj("data").columns)] = "mol"
    /\ Obj("data").rows[1]["mol"] = None
    /\ GetSymbols(Obj("data").rows[5]["mol"]) = <<"C", "N">>
    /\ NumAtoms(Obj("data").rows[7]["mol"]) = 7

\* The hydrogens a molecule carries as counts on its atoms, and as atoms.
ImplicitHs(m) == SumOver([a \in 1..Len(m.atoms) |-> m.atoms[a].numHs],
                         1..Len(m.atoms))
HAtoms(m) == {a \in 1..Len(m.atoms) : m.atoms[a].symbol = "H"}

\* C15: cell 9 binds mol again, so when cells 14 and 15 make their calls mol
\* is the molecule AddHs returned, with 12 atoms of which 8 are hydrogens
\* and no implicit ones, and not the 4-atom molecule of cell 6 (which still
\* exists unchanged); the fingerprint bound to bv is the one of that 12-atom
\* molecule.  toluene is not touched by cell 9: when cells 12 and 13 make
\* their calls it is the molecule cell 11 parsed, 7 atoms, no hydrogen atom,
\* its 8 hydrogens implicit.
C15_ExplicitHAfterRebind ==
    /\ \A c \in {14, 15} :
          AtCall(c) =>
             /\ IsRef(ns["mol"])
             /\ ns["mol"] = out[9].result
             /\ ns["mol"] # out[6].result
             /\ NumAtoms(Obj("mol")) = 12
             /\ Cardinality(HAtoms(Obj("mol"))) = 8
             /\ ImplicitHs(Obj("mol")) = 0
             /\ NumAtoms(heap[out[6].result.id]) = 4
             /\ ImplicitHs(heap[out[6].result.id]) = 8
    /\ At(15, 1) =>
          /\ Obj("bv") = GetMorganFingerprintAsBitVect(
                             heap[out[9].result.id], MorganRadius, MorganBits)
          /\ NumAtoms(heap[out[9].result.id]) = 12
    /\ \A c \in {12, 13} :
          AtCall(c) =>
             /\ IsRef(ns["toluene"])
             /\ ns["toluene"] = out[11].result
             /\ NumAtoms(Obj("toluene")) = 7
             /\ HAtoms(Obj("toluene")) = {}
             /\ ImplicitHs(Obj("toluene")) = 8

C15_Witness ==
    /\ status[13] = "done"
    /\ status[15] = "done"
    /\ IsRef(ns["bv"])
    /\ NumAtoms(Obj("mol")) = 12
    /\ NumAtoms(heap[out[6].result.id]) = 4
    /\ ImplicitHs(Obj("toluene")) = 8

\* C16: AllChem.CalcNumRotatableBonds(toluene) returns the integer 0: the
\* only single bond outside the ring joins the ring to the terminal methyl
\* carbon, which is not rotatable; cell 13 prints that 0, a non-negative
\* integer.
C16_TolueneNoRotatableBonds ==
    /\ AtCall(13) =>
          /\ CalcNumRotatableBonds(Obj("toluene")) = 0
          /\ CalcNumRotatableBonds(Obj("toluene")) \in Nat
    /\ status[13] = "done" =>
          /\ out[13].stdout
                = << [text |-> "Toluene has {} rotatable bonds", n |-> 0] >>
          /\ out[13].stdout[1].n \in Nat
          /\ out[13].err = ""

C16_Witness ==
    /\ status[13] = "done"
    /\ Len(out[13].stdout) = 1
    /\ GetSymbols(Obj("toluene")) = <<"C", "C", "C", "C", "C", "C", "C">>
    /\ Cardinality({i \in 1..Len(Obj("toluene").bonds) :
                       ~BondInRing(Obj("toluene").bonds, i)}) = 1

\* Cell 9 has been executed again and its assignment has been made.
Cell9Rerun ==
    /\ execution_count[9] > NumCells
    /\ \/ status[9] = "done"
       \/ status[9] = "running" /\ pos = 1

\* C18: AddHs is idempotent on the molecule of the run: when
\* mol = Chem.AddHs(mol) is executed a second time, on the 1-propanol that
\* already has its hydrogens as atoms, mol is bound to a new molecule equal
\* to the one it had: the same 12 atoms C, C, C, O and 8 H in the order
\* cell 10 printed them, the same 11 bonds, and no hydrogen added.
C18_AddHsIdempotent ==
    Cell9Rerun =>
       /\ IsRef(ns["mol"])
       /\ ns["mol"].id = Len(heap)
       /\ GetSymbols(Obj("mol"))
             = <<"C", "C", "C", "O", "H", "H", "H", "H", "H", "H", "H", "H">>
       /\ GetSymbols(Obj("mol"))
             = [k \in 1..Len(out[10].stdout) |-> out[10].stdout[k].symbol]
       /\ Len(Obj("mol").bonds) = 11
       /\ ImplicitHs(Obj("mol")) = 0
       /\ \E k \in 1..(Len(heap) - 1) : heap[k] = Obj("mol")
       /\ AddHs(Obj("mol")) = Obj("mol")

C18_Witness ==
    /\ Cell9Rerun
    /\ status[9] = "done"
    /\ execution_count[9] = NumCells + 1
    /\ NumAtoms(Obj("mol")) = 12
    /\ out[9].result = ns["mol"]

====
